---- MODULE Spec2Model ----
(***************************************************************************)
(* Model of src/github-storage.js: the GitHubStorage adapter that keeps a  *)
(* list of update-log records in a GitHub repository file (Contents API)   *)
(* and mirrors it into the browser's localStorage.                         *)
(*                                                                         *)
(* Text is modelled as sequences of code units (integers).  JSON, UTF-8    *)
(* and Base64 are computed, so the save and load paths can disagree.       *)
(* Base64 text is a sequence of sextet values 0..63, with 64 for '='.      *)
(***************************************************************************)
EXTENDS Integers, Sequences, FiniteSets, TLC

VARIABLES localStorage, config, remote, calls, opCount

vars == <<localStorage, config, remote, calls, opCount>>

(* ---------------- bounds ---------------- *)

\* number of adapter operations started in one behaviour
MaxOps == 2
\* number of records in the non-empty collection handed to saveLogs
MaxLogs == 1

\* the concurrent invocations (async calls in flight at the same time)
Calls == {"c1", "c2"}

(* ---------------- characters ---------------- *)

QUOTE == 34
COMMA == 44
LBRACK == 91
BSLASH == 92
RBRACK == 93
SPACE == 32
NEWLINE == 10
PAD == 64

\* the record text saveLogs is called with: "a日" ('日' is U+65E5)
Record == <<97, 26085>>

\* the collections saveLogs is called with: none or MaxLogs records
Colls == { <<>>, [i \in 1..MaxLogs |-> Record] }

(* ---------------- JSON.stringify ---------------- *)

RECURSIVE EscapeChars(_)
EscapeChars(s) ==
    IF s = <<>> THEN <<>>
    ELSE LET ch == Head(s)
         IN  (IF ch = QUOTE \/ ch = BSLASH THEN <<BSLASH, ch>> ELSE <<ch>>)
             \o EscapeChars(Tail(s))

QuoteString(s) == <<QUOTE>> \o EscapeChars(s) \o <<QUOTE>>

RECURSIVE JoinElems(_, _)
JoinElems(logs, sep) ==
    IF Len(logs) = 1 THEN QuoteString(logs[1])
    ELSE QuoteString(Head(logs)) \o <<COMMA>> \o sep \o JoinElems(Tail(logs), sep)

\* JSON.stringify(logs): compact form
JSONstringify(logs) ==
    IF logs = <<>> THEN <<LBRACK, RBRACK>>
    ELSE <<LBRACK>> \o JoinElems(logs, <<>>) \o <<RBRACK>>

\* JSON.stringify(logs, null, 2): one element per line, two-space indent
JSONstringifyPretty(logs) ==
    IF logs = <<>> THEN <<LBRACK, RBRACK>>
    ELSE <<LBRACK, NEWLINE, SPACE, SPACE>>
         \o JoinElems(logs, <<NEWLINE, SPACE, SPACE>>)
         \o <<NEWLINE, RBRACK>>

(* ---------------- JSON.parse ---------------- *)

ParseFail == [ok |-> FALSE, val |-> <<>>, next |-> 0]

RECURSIVE SkipWs(_, _)
SkipWs(s, i) ==
    IF i <= Len(s) /\ s[i] \in {SPACE, NEWLINE, 13, 9} THEN SkipWs(s, i + 1) ELSE i

\* i is the position after the opening quote; the result's val is the string
RECURSIVE ParseString(_, _, _)
ParseString(s, i, acc) ==
    IF i > Len(s) THEN ParseFail
    ELSE IF s[i] = QUOTE THEN [ok |-> TRUE, val |-> acc, next |-> i + 1]
    ELSE IF s[i] = BSLASH
         THEN IF i + 1 <= Len(s) /\ s[i + 1] \in {QUOTE, BSLASH}
              THEN ParseString(s, i + 2, Append(acc, s[i + 1]))
              ELSE ParseFail
    ELSE IF s[i] < 32 THEN ParseFail
    ELSE ParseString(s, i + 1, Append(acc, s[i]))

\* i is the position of the next element; the result's next is after ']'
RECURSIVE ParseElems(_, _, _)
ParseElems(s, i, acc) ==
    IF i > Len(s) \/ s[i] # QUOTE THEN ParseFail
    ELSE LET r == ParseString(s, i + 1, <<>>)
         IN  IF ~r.ok THEN ParseFail
             ELSE LET j == SkipWs(s, r.next)
                  IN  IF j > Len(s) THEN ParseFail
                      ELSE IF s[j] = COMMA
                           THEN ParseElems(s, SkipWs(s, j + 1), Append(acc, r.val))
                      ELSE IF s[j] = RBRACK
                           THEN [ok |-> TRUE, val |-> Append(acc, r.val), next |-> j + 1]
                      ELSE ParseFail

\* JSON.parse(text) on arrays of strings; ok = FALSE stands for SyntaxError
JSONparse(s) ==
    LET i == SkipWs(s, 1)
    IN  IF i > Len(s) \/ s[i] # LBRACK THEN ParseFail
        ELSE LET j == SkipWs(s, i + 1)
                 r == IF j <= Len(s) /\ s[j] = RBRACK
                      THEN [ok |-> TRUE, val |-> <<>>, next |-> j + 1]
                      ELSE ParseElems(s, j, <<>>)
             IN  IF r.ok /\ SkipWs(s, r.next) = Len(s) + 1
                 THEN [ok |-> TRUE, val |-> r.val, next |-> 0]
                 ELSE ParseFail

(* ---------------- UTF-8 and Base64 ---------------- *)

\* unescape(encodeURIComponent(ch)): the UTF-8 bytes of a BMP code point,
\* one character (0..255) per byte
Utf8Char(cp) ==
    IF cp < 128 THEN <<cp>>
    ELSE IF cp < 2048 THEN <<192 + (cp \div 64), 128 + (cp % 64)>>
    ELSE <<224 + (cp \div 4096), 128 + ((cp \div 64) % 64), 128 + (cp % 64)>>

RECURSIVE Utf8Encode(_)
Utf8Encode(s) ==
    IF s = <<>> THEN <<>> ELSE Utf8Char(Head(s)) \o Utf8Encode(Tail(s))

\* btoa(binaryString)
RECURSIVE btoa(_)
btoa(b) ==
    IF Len(b) = 0 THEN <<>>
    ELSE IF Len(b) = 1
         THEN <<b[1] \div 4, (b[1] % 4) * 16, PAD, PAD>>
    ELSE IF Len(b) = 2
         THEN <<b[1] \div 4, (b[1] % 4) * 16 + (b[2] \div 16), (b[2] % 16) * 4, PAD>>
    ELSE <<b[1] \div 4, (b[1] % 4) * 16 + (b[2] \div 16),
           (b[2] % 16) * 4 + (b[3] \div 64), b[3] % 64>>
         \o btoa(SubSeq(b, 4, Len(b)))

StripPad(s) ==
    IF Len(s) % 4 = 0 /\ Len(s) >= 2 /\ s[Len(s)] = PAD
    THEN IF s[Len(s) - 1] = PAD THEN SubSeq(s, 1, Len(s) - 2)
         ELSE SubSeq(s, 1, Len(s) - 1)
    ELSE s

RECURSIVE DecodeSextets(_)
DecodeSextets(s) ==
    IF Len(s) < 2 THEN <<>>
    ELSE IF Len(s) = 2
         THEN <<s[1] * 4 + (s[2] \div 16)>>
    ELSE IF Len(s) = 3
         THEN <<s[1] * 4 + (s[2] \div 16), (s[2] % 16) * 16 + (s[3] \div 4)>>
    ELSE <<s[1] * 4 + (s[2] \div 16), (s[2] % 16) * 16 + (s[3] \div 4),
           (s[3] % 4) * 64 + s[4]>>
         \o DecodeSextets(SubSeq(s, 5, Len(s)))

\* atob(text): ok = FALSE stands for InvalidCharacterError; the result is a
\* binary string, one character (0..255) per byte
atob(s) ==
    LET t == StripPad(s)
    IN  IF Len(t) % 4 = 1 \/ \E i \in 1..Len(t) : t[i] \notin 0..63
        THEN [ok |-> FALSE, val |-> <<>>]
        ELSE [ok |-> TRUE, val |-> DecodeSextets(t)]

(* ---------------- the stores ---------------- *)

\* a localStorage item holding text; present = FALSE is a missing key
NoItem == [present |-> FALSE, text |-> <<>>]
Item(text) == [present |-> TRUE, text |-> text]

\* a truncated document, as a foreign writer or an interrupted write leaves it
MalformedText == <<LBRACK, QUOTE, 97>>

\* the parsed value of the 'github_config' key; "" is a missing or empty field
NoFields == [username |-> "", repo |-> "", token |-> "", branch |-> ""]
ConfigItems ==
    { [present |-> FALSE, valid |-> FALSE, obj |-> NoFields],
      [present |-> TRUE, valid |-> FALSE, obj |-> NoFields],
      [present |-> TRUE, valid |-> TRUE,
       obj |-> [username |-> "u", repo |-> "r", token |-> "", branch |-> ""]],
      [present |-> TRUE, valid |-> TRUE,
       obj |-> [username |-> "u", repo |-> "r", token |-> "t", branch |-> ""]] }

NullConfig == [isNull |-> TRUE, fields |-> NoFields]

\* every shape of the 'github_config' key: missing, unparsable, and each
\* combination of present and missing fields
AllConfigItems ==
    { [present |-> FALSE, valid |-> FALSE, obj |-> NoFields],
      [present |-> TRUE, valid |-> FALSE, obj |-> NoFields] }
    \cup { [present |-> TRUE, valid |-> TRUE,
            obj |-> [username |-> u, repo |-> r, token |-> t, branch |-> b]] :
            u \in {"", "u"}, r \in {"", "r"}, t \in {"", "t"}, b \in {"", "dev"} }

\* variant: the unparsed text is stored, which has no fields
loadConfigUnparsed(cfg, ls) ==
    IF ls.github_config.present /\ ls.github_config.valid
    THEN [isNull |-> FALSE, fields |-> NoFields]
    ELSE cfg

\* loadConfig(): this.config after the call, cfg being this.config before it
loadConfig(cfg, ls) ==
    IF ls.github_config.present /\ ls.github_config.valid
    THEN [isNull |-> FALSE, fields |-> ls.github_config.obj]
    ELSE cfg

\* variant: the token is not required
isConfiguredNoToken(cfg) ==
    /\ ~cfg.isNull
    /\ cfg.fields.username # ""
    /\ cfg.fields.repo # ""

isConfigured(cfg) ==
    /\ ~cfg.isNull
    /\ cfg.fields.username # ""
    /\ cfg.fields.repo # ""
    /\ cfg.fields.token # ""

NoInfo == [username |-> "", repo |-> "", branch |-> "", repoUrl |-> <<>>]

\* variant: the whole configuration is handed out
getConfigInfoWithToken(cfg) ==
    IF ~isConfigured(cfg) THEN [isNull |-> TRUE, info |-> NoInfo]
    ELSE [isNull |-> FALSE,
          info |-> [username |-> cfg.fields.username, repo |-> cfg.fields.repo,
                    branch |-> IF cfg.fields.branch = "" THEN "main"
                               ELSE cfg.fields.branch,
                    repoUrl |-> <<"https://github.com/", cfg.fields.username,
                                  "/", cfg.fields.repo, cfg.fields.token>>]]

\* getConfigInfo(): null, or the display fields and the repository URL
getConfigInfo(cfg) ==
    IF ~isConfigured(cfg) THEN [isNull |-> TRUE, info |-> NoInfo]
    ELSE [isNull |-> FALSE,
          info |-> [username |-> cfg.fields.username, repo |-> cfg.fields.repo,
                    branch |-> IF cfg.fields.branch = "" THEN "main"
                               ELSE cfg.fields.branch,
                    repoUrl |-> <<"https://github.com/", cfg.fields.username,
                                  "/", cfg.fields.repo>>]]

\* btoa(unescape(encodeURIComponent(JSON.stringify(logs, null, 2))))
EncodeContent(logs) == btoa(Utf8Encode(JSONstringifyPretty(logs)))

\* JSON.parse(atob(data.content)); ok = FALSE stands for either exception
DecodeContent(content) ==
    LET bin == atob(content)
    IN  IF ~bin.ok THEN [ok |-> FALSE, val |-> <<>>]
        ELSE LET r == JSONparse(bin.val) IN [ok |-> r.ok, val |-> r.val]

\* variant: the cache is never read
loadLogsFromLocalEmpty(ls) == [ok |-> TRUE, val |-> <<>>]

\* loadLogsFromLocal(); ok = FALSE stands for the SyntaxError of JSON.parse
loadLogsFromLocal(ls) ==
    LET data == ls.updateLogs
    IN  IF ~data.present \/ data.text = <<>> THEN [ok |-> TRUE, val |-> <<>>]
        ELSE LET r == JSONparse(data.text) IN [ok |-> r.ok, val |-> r.val]

\* variant: the result of the write is not reported
saveLogsToLocalTrue(ls, logs, storeOK) ==
    [ls  |-> IF storeOK THEN [ls EXCEPT !.updateLogs = Item(JSONstringify(logs))]
             ELSE ls,
     ret |-> TRUE]

\* variant: the cache receives the pretty-printed text built for the remote
saveLogsToLocalPretty(ls, logs, storeOK) ==
    [ls  |-> IF storeOK
             THEN [ls EXCEPT !.updateLogs = Item(JSONstringifyPretty(logs))]
             ELSE ls,
     ret |-> storeOK]

\* saveLogsToLocal(logs); storeOK = FALSE is setItem throwing (quota exceeded)
saveLogsToLocal(ls, logs, storeOK) ==
    [ls  |-> IF storeOK THEN [ls EXCEPT !.updateLogs = Item(JSONstringify(logs))]
             ELSE ls,
     ret |-> storeOK]

\* the repository file data/logs.json; sha 0 is "no revision" (null).
\* by names the operation whose PUT wrote the content, 0 for earlier content
NoFile == [exists |-> FALSE, content |-> <<>>, sha |-> 0, by |-> 0]
RemoteFile(content) == [exists |-> TRUE, content |-> content, sha |-> 1, by |-> 0]

\* what the stores hold from earlier sessions
CachedLogs == << <<97>> >>
StoredLogs == << <<97>>, <<26085>> >>

\* not Base64: a single symbol outside the alphabet
BadBase64 == <<99>>
\* Base64 of a truncated JSON document
BadJsonContent == btoa(Utf8Encode(MalformedText))

(* ---------------- HTTP ---------------- *)

NoResp == [status |-> 0, content |-> <<>>, sha |-> 0, by |-> 0]
Ok(resp) == resp.status \in 200..299

\* GET /repos/{user}/{repo}/contents/data/logs.json
GetReply(file) ==
    IF file.exists
    THEN [status |-> 200, content |-> file.content, sha |-> file.sha, by |-> file.by]
    ELSE [NoResp EXCEPT !.status = 404]

\* PUT to the same path: create needs no sha, replace needs the current one
PutAccepted(file, sha) ==
    IF file.exists THEN sha = file.sha ELSE sha = 0

PutReply(file, sha) ==
    IF PutAccepted(file, sha)
    THEN [NoResp EXCEPT !.status = IF file.exists THEN 200 ELSE 201]
    ELSE [NoResp EXCEPT !.status = IF sha = 0 THEN 422 ELSE 409]

(* ---------------- calls ---------------- *)

\* One async invocation.  pc: idle, getSent, getReplied, putSent, putReplied,
\* done.  outcome: none, returned, raised.  The fields from gets to via record
\* what the call did; the code does not read them.  via is syncFrom or syncTo
\* for a loadLogs or saveLogs called by the wrapper.  retNull and retInfo are
\* the result of getConfigInfo.
IdleCall ==
    [id |-> 0, op |-> "none", pc |-> "idle", logs |-> <<>>, sha |-> 0,
     body |-> <<>>, resp |-> NoResp,
     outcome |-> "none", retLogs |-> <<>>, retBool |-> FALSE,
     gets |-> 0, puts |-> 0, alerts |-> 0, seen |-> 0,
     wrote |-> FALSE, wroteOK |-> FALSE, fromRemote |-> FALSE, by |-> 0,
     accepted |-> FALSE, failed |-> FALSE, rival |-> 0, overlapped |-> FALSE,
     via |-> "direct", retNull |-> FALSE, retInfo |-> NoInfo]

\* a call slot is free before its first and after each finished invocation;
\* the slots are interchangeable, so c2 is used only once c1 has been
CanStart(c) ==
    /\ calls[c].pc \in {"idle", "done"}
    /\ opCount < MaxOps
    /\ c = "c2" => calls["c1"].pc # "idle"

Fresh(op, logs) == [IdleCall EXCEPT !.id = opCount + 1, !.op = op, !.logs = logs]

Busy(d) == calls[d].pc \notin {"idle", "done"}

\* a save whose GET was answered by the server and whose PUT was not yet
InWindow(d) == calls[d].op = "save" /\ calls[d].pc \in {"getReplied", "putSent"}

Init ==
    /\ \E cfg \in ConfigItems :
       \E cache \in {NoItem, Item(<<>>), Item(MalformedText),
                     Item(JSONstringify(CachedLogs))} :
          localStorage = [github_config |-> cfg, updateLogs |-> cache]
    /\ config = loadConfig(NullConfig, localStorage)
    /\ remote \in {NoFile, RemoteFile(BadBase64), RemoteFile(BadJsonContent),
                   RemoteFile(EncodeContent(StoredLogs))}
    /\ calls = [c \in Calls |-> IdleCall]
    /\ opCount = 0

(* ---------------- loadLogs ---------------- *)

\* the catch block of loadLogs: fall back to the local cache
loadLogsCatch(ls) ==
    LET r == loadLogsFromLocal(ls)
    IN  [ls |-> ls, outcome |-> IF r.ok THEN "returned" ELSE "raised",
         retLogs |-> r.val, wrote |-> FALSE, wroteOK |-> FALSE,
         fromRemote |-> FALSE]

\* variant: a 404 empties the cache
loadLogsResumeClobber(resp, ls, storeOK) ==
    IF resp.status = 404
    THEN [ls |-> saveLogsToLocal(ls, <<>>, storeOK).ls, outcome |-> "returned",
          retLogs |-> <<>>, wrote |-> TRUE, wroteOK |-> storeOK,
          fromRemote |-> FALSE]
    ELSE IF ~Ok(resp) THEN loadLogsCatch(ls)
    ELSE LET logs == DecodeContent(resp.content)
         IN  IF ~logs.ok THEN loadLogsCatch(ls)
             ELSE LET w == saveLogsToLocal(ls, logs.val, storeOK)
                  IN  [ls |-> w.ls, outcome |-> "returned", retLogs |-> logs.val,
                       wrote |-> TRUE, wroteOK |-> w.ret, fromRemote |-> TRUE]

\* variant: the decoded collection is returned without refreshing the cache
loadLogsResumeNoCache(resp, ls, storeOK) ==
    IF resp.status = 404
    THEN [ls |-> ls, outcome |-> "returned", retLogs |-> <<>>,
          wrote |-> FALSE, wroteOK |-> FALSE, fromRemote |-> FALSE]
    ELSE IF ~Ok(resp) THEN loadLogsCatch(ls)
    ELSE LET logs == DecodeContent(resp.content)
         IN  IF ~logs.ok THEN loadLogsCatch(ls)
             ELSE [ls |-> ls, outcome |-> "returned", retLogs |-> logs.val,
                   wrote |-> FALSE, wroteOK |-> FALSE, fromRemote |-> TRUE]

\* loadLogs after fetch resolved with resp
loadLogsResume(resp, ls, storeOK) ==
    IF resp.status = 404
    THEN [ls |-> ls, outcome |-> "returned", retLogs |-> <<>>,
          wrote |-> FALSE, wroteOK |-> FALSE, fromRemote |-> FALSE]
    ELSE IF ~Ok(resp) THEN loadLogsCatch(ls)
    ELSE LET logs == DecodeContent(resp.content)
         IN  IF ~logs.ok THEN loadLogsCatch(ls)
             ELSE LET w == saveLogsToLocal(ls, logs.val, storeOK)
                  IN  [ls |-> w.ls, outcome |-> "returned", retLogs |-> logs.val,
                       wrote |-> TRUE, wroteOK |-> w.ret, fromRemote |-> TRUE]

FinishLoad(c, r, seen, failed) ==
    /\ localStorage' = r.ls
    /\ calls' = [calls EXCEPT ![c].pc = "done", ![c].outcome = r.outcome,
                              ![c].retLogs = r.retLogs, ![c].wrote = r.wrote,
                              ![c].wroteOK = r.wroteOK,
                              ![c].fromRemote = r.fromRemote,
                              ![c].by = IF r.fromRemote THEN calls[c].resp.by ELSE 0,
                              ![c].seen = seen,
                              ![c].failed = calls[c].failed \/ failed]

\* loadLogs(), unconfigured: the local cache only
LoadLocal(c) ==
    /\ CanStart(c)
    /\ ~isConfigured(config)
    /\ LET r == loadLogsFromLocal(localStorage)
       IN  calls' = [calls EXCEPT ![c] =
                [Fresh("load", <<>>) EXCEPT !.pc = "done", !.retLogs = r.val,
                     !.outcome = IF r.ok THEN "returned" ELSE "raised"]]
    /\ opCount' = opCount + 1
    /\ UNCHANGED <<localStorage, config, remote>>

\* loadLogs(), configured: up to the await of fetch
LoadSendGet(c) ==
    /\ CanStart(c)
    /\ isConfigured(config)
    /\ calls' = [calls EXCEPT ![c] =
                    [Fresh("load", <<>>) EXCEPT !.pc = "getSent", !.gets = 1]]
    /\ opCount' = opCount + 1
    /\ UNCHANGED <<localStorage, config, remote>>

\* loadLogs() resumed with the response
LoadOnGetResponse(c) ==
    /\ calls[c].op = "load"
    /\ calls[c].pc = "getReplied"
    /\ \E storeOK \in BOOLEAN :
          FinishLoad(c, loadLogsResume(calls[c].resp, localStorage, storeOK),
                     calls[c].resp.status, FALSE)
    /\ UNCHANGED <<config, remote, opCount>>

\* loadLogs() resumed with fetch rejected: request or response lost
LoadOnGetFailure(c) ==
    /\ calls[c].op = "load"
    /\ calls[c].pc \in {"getSent", "getReplied"}
    /\ FinishLoad(c, loadLogsCatch(localStorage), 0, TRUE)
    /\ UNCHANGED <<config, remote, opCount>>

(* ---------------- saveLogs ---------------- *)

\* variant: the revision identifier of the GET is dropped
saveLogsShaNull(resp) == 0

\* variant: sha starts from a remembered revision instead of null
saveLogsShaStale(resp) == IF Ok(resp) THEN resp.sha ELSE 1

\* the revision identifier saveLogs takes from its GET: null unless ok
saveLogsSha(resp) == IF Ok(resp) THEN resp.sha ELSE 0

\* variant: the catch block does not write the cache
saveLogsFinishNoMirror(fetched, resp, ls, logs, storeOK) ==
    LET w == saveLogsToLocal(ls, logs, storeOK)
    IN  IF fetched /\ Ok(resp)
        THEN [ls |-> w.ls, ret |-> TRUE, alerts |-> 0, wrote |-> TRUE,
              wroteOK |-> w.ret]
        ELSE [ls |-> ls, ret |-> FALSE, alerts |-> 1, wrote |-> FALSE,
              wroteOK |-> FALSE]

\* variant: the catch block does not alert
saveLogsFinishNoAlert(fetched, resp, ls, logs, storeOK) ==
    LET w == saveLogsToLocal(ls, logs, storeOK)
    IN  [ls |-> w.ls, ret |-> fetched /\ Ok(resp), alerts |-> 0, wrote |-> TRUE,
         wroteOK |-> w.ret]

\* variant: response.ok is not checked
saveLogsFinishIgnoreStatus(fetched, resp, ls, logs, storeOK) ==
    LET w == saveLogsToLocal(ls, logs, storeOK)
    IN  IF fetched
        THEN [ls |-> w.ls, ret |-> TRUE, alerts |-> 0, wrote |-> TRUE,
              wroteOK |-> w.ret]
        ELSE [ls |-> w.ls, ret |-> FALSE, alerts |-> 1, wrote |-> TRUE,
              wroteOK |-> w.ret]

\* variant: a rejected mirror write is treated as a failed save
saveLogsFinishAlertOnStore(fetched, resp, ls, logs, storeOK) ==
    LET w == saveLogsToLocal(ls, logs, storeOK)
    IN  IF fetched /\ Ok(resp) /\ w.ret
        THEN [ls |-> w.ls, ret |-> TRUE, alerts |-> 0, wrote |-> TRUE,
              wroteOK |-> w.ret]
        ELSE [ls |-> w.ls, ret |-> fetched /\ Ok(resp), alerts |-> 1,
              wrote |-> TRUE, wroteOK |-> w.ret]

\* variant: the result of the mirror write is returned
saveLogsFinishReturnsStore(fetched, resp, ls, logs, storeOK) ==
    LET w == saveLogsToLocal(ls, logs, storeOK)
    IN  IF fetched /\ Ok(resp)
        THEN [ls |-> w.ls, ret |-> w.ret, alerts |-> 0, wrote |-> TRUE,
              wroteOK |-> w.ret]
        ELSE [ls |-> w.ls, ret |-> FALSE, alerts |-> 1, wrote |-> TRUE,
              wroteOK |-> w.ret]

\* saveLogs after the PUT: fetched = FALSE is fetch rejected
saveLogsFinish(fetched, resp, ls, logs, storeOK) ==
    LET w == saveLogsToLocal(ls, logs, storeOK)
    IN  IF fetched /\ Ok(resp)
        THEN [ls |-> w.ls, ret |-> TRUE, alerts |-> 0, wrote |-> TRUE,
              wroteOK |-> w.ret]
        ELSE [ls |-> w.ls, ret |-> FALSE, alerts |-> 1, wrote |-> TRUE,
              wroteOK |-> w.ret]

\* saveLogs(logs), unconfigured: the local cache only
SaveLocal(c) ==
    /\ CanStart(c)
    /\ ~isConfigured(config)
    /\ \E logs \in Colls, storeOK \in BOOLEAN :
          LET w == saveLogsToLocal(localStorage, logs, storeOK)
          IN  /\ localStorage' = w.ls
              /\ calls' = [calls EXCEPT ![c] =
                      [Fresh("save", logs) EXCEPT !.pc = "done",
                           !.outcome = "returned", !.retBool = w.ret,
                           !.wrote = TRUE, !.wroteOK = storeOK]]
    /\ opCount' = opCount + 1
    /\ UNCHANGED <<config, remote>>

\* saveLogs(logs), configured: up to the await of the GET
SaveSendGet(c) ==
    /\ CanStart(c)
    /\ isConfigured(config)
    /\ \E logs \in Colls :
          calls' = [calls EXCEPT ![c] =
                       [Fresh("save", logs) EXCEPT !.pc = "getSent", !.gets = 1]]
    /\ opCount' = opCount + 1
    /\ UNCHANGED <<localStorage, config, remote>>

\* the rest of the try block up to the await of the PUT
SendPut(c, sha, seen, resp, failed) ==
    calls' = [calls EXCEPT ![c].pc = "putSent", ![c].sha = sha,
                           ![c].body = EncodeContent(calls[c].logs),
                           ![c].puts = calls[c].puts + 1,
                           ![c].seen = seen, ![c].resp = resp,
                           ![c].by = resp.by,
                           ![c].failed = calls[c].failed \/ failed]

\* saveLogs() resumed with the GET's response
SaveOnGetResponse(c) ==
    /\ calls[c].op = "save"
    /\ calls[c].pc = "getReplied"
    /\ SendPut(c, saveLogsSha(calls[c].resp), calls[c].resp.status,
               calls[c].resp, FALSE)
    /\ UNCHANGED <<localStorage, config, remote, opCount>>

\* saveLogs() resumed with the GET rejected: the inner catch, sha stays null
SaveOnGetFailure(c) ==
    /\ calls[c].op = "save"
    /\ calls[c].pc \in {"getSent", "getReplied"}
    /\ SendPut(c, 0, 0, NoResp, TRUE)
    /\ UNCHANGED <<localStorage, config, remote, opCount>>

FinishSave(c, r, seen, failed) ==
    /\ localStorage' = r.ls
    /\ calls' = [calls EXCEPT ![c].pc = "done", ![c].outcome = "returned",
                              ![c].retBool = r.ret,
                              ![c].alerts = calls[c].alerts + r.alerts,
                              ![c].wrote = r.wrote, ![c].wroteOK = r.wroteOK,
                              ![c].seen = seen,
                              ![c].failed = calls[c].failed \/ failed]

\* saveLogs() resumed with the PUT's response
SaveOnPutResponse(c) ==
    /\ calls[c].op = "save"
    /\ calls[c].pc = "putReplied"
    /\ \E storeOK \in BOOLEAN :
          FinishSave(c, saveLogsFinish(TRUE, calls[c].resp, localStorage,
                                       calls[c].logs, storeOK),
                     calls[c].resp.status, FALSE)
    /\ UNCHANGED <<config, remote, opCount>>

\* saveLogs() resumed with the PUT rejected by the transport
SaveOnPutFailure(c) ==
    /\ calls[c].op = "save"
    /\ calls[c].pc \in {"putSent", "putReplied"}
    /\ \E storeOK \in BOOLEAN :
          FinishSave(c, saveLogsFinish(FALSE, NoResp, localStorage,
                                       calls[c].logs, storeOK), 0, TRUE)
    /\ UNCHANGED <<config, remote, opCount>>

(* ---------------- the Contents API ---------------- *)

\* the saves that hold the revision c's GET is about to be answered with
Rivals(c) ==
    { d \in Calls \ {c} : /\ calls[c].op = "save"
                          /\ InWindow(d)
                          /\ calls[d].resp.status \in {200, 404}
                          /\ calls[d].resp.sha = remote.sha }

\* the server answers the GET of call c
ServerGet(c) ==
    /\ calls[c].pc = "getSent"
    /\ calls' = [x \in Calls |->
          IF x = c
          THEN [calls[c] EXCEPT !.pc = "getReplied", !.resp = GetReply(remote),
                    !.rival = IF Rivals(c) = {} THEN 0
                              ELSE calls[CHOOSE d \in Rivals(c) : TRUE].id]
          ELSE IF x \in Rivals(c) THEN [calls[x] EXCEPT !.rival = calls[c].id]
          ELSE calls[x]]
    /\ UNCHANGED <<localStorage, config, remote, opCount>>

\* the server refuses the GET of call c (rate limit, server error)
ServerGetError(c) ==
    /\ calls[c].pc = "getSent"
    /\ calls' = [calls EXCEPT ![c].pc = "getReplied",
                              ![c].resp = [NoResp EXCEPT !.status = 500],
                              ![c].failed = TRUE]
    /\ UNCHANGED <<localStorage, config, remote, opCount>>

\* the server answers the PUT of call c
ServerPut(c) ==
    /\ calls[c].pc = "putSent"
    /\ LET ok == PutAccepted(remote, calls[c].sha)
       IN  /\ remote' = IF ok
                        THEN [exists |-> TRUE, content |-> calls[c].body,
                              sha |-> remote.sha + 1, by |-> calls[c].id]
                        ELSE remote
           /\ calls' = [x \in Calls |->
                 IF x = c
                 THEN [calls[c] EXCEPT !.pc = "putReplied",
                           !.resp = PutReply(remote, calls[c].sha),
                           !.accepted = ok]
                 ELSE IF ok /\ InWindow(x) THEN [calls[x] EXCEPT !.overlapped = TRUE]
                 ELSE calls[x]]
    /\ UNCHANGED <<localStorage, config, opCount>>

\* the server refuses the PUT of call c without looking at the file
ServerPutError(c) ==
    /\ calls[c].pc = "putSent"
    /\ calls' = [calls EXCEPT ![c].pc = "putReplied",
                              ![c].resp = [NoResp EXCEPT !.status = 500],
                              ![c].failed = TRUE]
    /\ UNCHANGED <<localStorage, config, remote, opCount>>

(* ---------------- the synchronous methods and the sync wrappers ------- *)

\* no invocation is in flight: the caller awaits each call before the next
Quiet == \A d \in Calls : ~Busy(d)

\* isConfigured(), called from outside; the result is taken by its truthiness
IsConfiguredCall(c) ==
    /\ CanStart(c) /\ Quiet
    /\ calls' = [calls EXCEPT ![c] =
           [Fresh("isConfigured", <<>>) EXCEPT !.pc = "done",
                !.outcome = "returned", !.retBool = isConfigured(config)]]
    /\ opCount' = opCount + 1
    /\ UNCHANGED <<localStorage, config, remote>>

\* getConfigInfo()
GetConfigInfoCall(c) ==
    /\ CanStart(c) /\ Quiet
    /\ LET r == getConfigInfo(config)
       IN  calls' = [calls EXCEPT ![c] =
               [Fresh("getConfigInfo", <<>>) EXCEPT !.pc = "done",
                    !.outcome = "returned", !.retNull = r.isNull,
                    !.retInfo = r.info]]
    /\ opCount' = opCount + 1
    /\ UNCHANGED <<localStorage, config, remote>>

\* loadConfig(), called again after construction
LoadConfigCall(c) ==
    /\ CanStart(c) /\ Quiet
    /\ config' = loadConfig(config, localStorage)
    /\ calls' = [calls EXCEPT ![c] =
           [Fresh("loadConfig", <<>>) EXCEPT !.pc = "done",
                !.outcome = "returned",
                !.retBool = localStorage.github_config.present
                            /\ localStorage.github_config.valid]]
    /\ opCount' = opCount + 1
    /\ UNCHANGED <<localStorage, remote>>

\* variant: the wrappers do not check the configuration
syncThrowsNever(cfg) == FALSE

\* the guard of syncFromGitHub() and syncToGitHub(): TRUE is the throw
syncThrows(cfg) == ~isConfigured(cfg)

Raised(op) ==
    [Fresh(op, <<>>) EXCEPT !.pc = "done", !.outcome = "raised", !.via = op]

\* variant: the pull wrapper delegates to saveLogs
syncFromGitHubCallsSave == "save"

\* the method syncFromGitHub() delegates to
syncFromGitHubCalls == "load"

\* syncFromGitHub(): the guard, then loadLogs() up to its first await
SyncFromGitHub(c) ==
    /\ CanStart(c) /\ Quiet
    /\ LET r == loadLogsFromLocal(localStorage)
       IN  calls' = [calls EXCEPT ![c] =
             IF syncThrows(config) THEN Raised("syncFrom")
             ELSE IF isConfigured(config)
             THEN [Fresh(syncFromGitHubCalls, <<>>) EXCEPT !.pc = "getSent",
                        !.gets = 1, !.via = "syncFrom"]
             ELSE [Fresh(syncFromGitHubCalls, <<>>) EXCEPT !.pc = "done",
                        !.via = "syncFrom", !.retLogs = r.val,
                        !.outcome = IF r.ok THEN "returned" ELSE "raised"]]
    /\ opCount' = opCount + 1
    /\ UNCHANGED <<localStorage, config, remote>>

\* variant: the push wrapper sends an empty collection
syncToGitHubLogsEmpty(ls) == [ok |-> TRUE, val |-> <<>>]

\* the collection syncToGitHub() hands to saveLogs()
syncToGitHubLogs(ls) == loadLogsFromLocal(ls)

\* syncToGitHub(): the guard, the cache read, then saveLogs() up to its
\* first await
SyncToGitHub(c) ==
    /\ CanStart(c) /\ Quiet
    /\ \E storeOK \in BOOLEAN :
          LET r == syncToGitHubLogs(localStorage)
              w == saveLogsToLocal(localStorage, r.val, storeOK)
          IN  IF syncThrows(config) \/ ~r.ok
              THEN /\ calls' = [calls EXCEPT ![c] = Raised("syncTo")]
                   /\ localStorage' = localStorage
              ELSE IF isConfigured(config)
              THEN /\ calls' = [calls EXCEPT ![c] =
                          [Fresh("save", r.val) EXCEPT !.pc = "getSent",
                               !.gets = 1, !.via = "syncTo"]]
                   /\ localStorage' = localStorage
              ELSE /\ calls' = [calls EXCEPT ![c] =
                          [Fresh("save", r.val) EXCEPT !.pc = "done",
                               !.via = "syncTo", !.outcome = "returned",
                               !.retBool = w.ret, !.wrote = TRUE,
                               !.wroteOK = storeOK]]
                   /\ localStorage' = w.ls
    /\ opCount' = opCount + 1
    /\ UNCHANGED <<config, remote>>

\* loadLogs() and saveLogs() called by a caller that awaits each call
SeqLoadLocal(c) == Quiet /\ LoadLocal(c)
SeqLoadSendGet(c) == Quiet /\ LoadSendGet(c)
SeqSaveLocal(c) == Quiet /\ SaveLocal(c)
SeqSaveSendGet(c) == Quiet /\ SaveSendGet(c)

(* ---------------- specification ---------------- *)

Next ==
    \E c \in Calls :
        \/ LoadLocal(c)
        \/ LoadSendGet(c)
        \/ LoadOnGetResponse(c)
        \/ LoadOnGetFailure(c)
        \/ SaveLocal(c)
        \/ SaveSendGet(c)
        \/ SaveOnGetResponse(c)
        \/ SaveOnGetFailure(c)
        \/ SaveOnPutResponse(c)
        \/ SaveOnPutFailure(c)
        \/ ServerGet(c)
        \/ ServerGetError(c)
        \/ ServerPut(c)
        \/ ServerPutError(c)

Spec == Init /\ [][Next]_vars

\* the stores and every shape of configuration, for one caller at a time
SyncInit ==
    /\ \E cfg \in AllConfigItems :
       \E cache \in {NoItem, Item(MalformedText), Item(JSONstringify(CachedLogs))} :
          localStorage = [github_config |-> cfg, updateLogs |-> cache]
    /\ config = loadConfig(NullConfig, localStorage)
    /\ remote \in {NoFile, RemoteFile(EncodeContent(StoredLogs))}
    /\ calls = [c \in Calls |-> IdleCall]
    /\ opCount = 0

SyncNext ==
    \E c \in Calls :
        \/ IsConfiguredCall(c)
        \/ GetConfigInfoCall(c)
        \/ LoadConfigCall(c)
        \/ SyncFromGitHub(c)
        \/ SyncToGitHub(c)
        \/ SeqLoadLocal(c)
        \/ SeqLoadSendGet(c)
        \/ SeqSaveLocal(c)
        \/ SeqSaveSendGet(c)
        \/ LoadOnGetResponse(c)
        \/ LoadOnGetFailure(c)
        \/ SaveOnGetResponse(c)
        \/ SaveOnGetFailure(c)
        \/ SaveOnPutResponse(c)
        \/ SaveOnPutFailure(c)
        \/ ServerGet(c)
        \/ ServerGetError(c)
        \/ ServerPut(c)
        \/ ServerPutError(c)

SpecSync == SyncInit /\ [][SyncNext]_vars

TypeOK ==
    /\ opCount \in 0..MaxOps
    /\ \A c \in Calls : calls[c].pc \in
          {"idle", "getSent", "getReplied", "putSent", "putReplied", "done"}

(* ---------------- properties ---------------- *)

Configured == isConfigured(config)
Cache == localStorage.updateLogs

\* call c returns from saveLogs / loadLogs in this step
SaveReturns(c) ==
    /\ calls'[c].op = "save"
    /\ calls'[c].pc = "done"
    /\ calls[c].pc # "done" \/ calls[c].id # calls'[c].id

LoadReturns(c) ==
    /\ calls'[c].op = "load"
    /\ calls'[c].pc = "done"
    /\ calls[c].pc # "done" \/ calls[c].id # calls'[c].id

SaveDone(c) == calls[c].op = "save" /\ calls[c].pc = "done"
LoadDone(c) == calls[c].op = "load" /\ calls[c].pc = "done"

\* C1 as stated: whenever saveLogs(X) returns, whatever the remote outcome,
\* the key 'updateLogs' holds JSON.stringify(X).
C1_AlwaysCached ==
    [][\A c \in Calls :
          SaveReturns(c) =>
             localStorage'.updateLogs = Item(JSONstringify(calls'[c].logs))]_vars

\* C1 amended: whenever saveLogs(X) returns, whatever the remote outcome, it
\* has issued the local write of X; the key 'updateLogs' holds
\* JSON.stringify(X) if the store accepted that write and is left as it was
\* if the store rejected it.
C1_CachedUnlessStoreFails ==
    [][\A c \in Calls :
          SaveReturns(c) =>
             /\ calls'[c].wrote
             /\ localStorage'.updateLogs =
                   IF calls'[c].wroteOK THEN Item(JSONstringify(calls'[c].logs))
                   ELSE localStorage.updateLogs]_vars

\* a configured save whose PUT the remote rejected has returned and left X
\* in the cache, which held something else at the start
C1_Witness ==
    \E c \in Calls :
        /\ SaveDone(c) /\ Configured
        /\ calls[c].seen = 409
        /\ calls[c].wroteOK
        /\ calls[c].logs # CachedLogs
        /\ Cache = Item(JSONstringify(calls[c].logs))

\* C2: a configured saveLogs(X) whose PUT was answered non-2xx or failed in
\* transport returns false, raises the alert once, and issues the local write
\* of X (which the cache then holds unless the store rejects it).
C2_RemoteFailure ==
    [][\A c \in Calls :
          (SaveReturns(c) /\ Configured /\ calls'[c].seen \notin 200..299) =>
             /\ calls'[c].outcome = "returned"
             /\ calls'[c].retBool = FALSE
             /\ calls'[c].alerts = 1
             /\ calls'[c].wrote
             /\ calls'[c].wroteOK =>
                   localStorage'.updateLogs = Item(JSONstringify(calls'[c].logs))]_vars

\* a save whose PUT was lost in transport has returned false with the alert
\* raised and X in the cache
C2_Witness ==
    \E c \in Calls :
        /\ SaveDone(c) /\ Configured
        /\ calls[c].puts = 1 /\ calls[c].seen = 0
        /\ ~calls[c].retBool /\ calls[c].alerts = 1
        /\ calls[c].logs # <<>>
        /\ Cache = Item(JSONstringify(calls[c].logs))

\* C3 as stated: loadLogs() never raises; every finished loadLogs() has
\* returned a collection.
C3_NeverRaises ==
    \A c \in Calls : LoadDone(c) => calls[c].outcome = "returned"

\* C4: when the client receives 404 for its GET, loadLogs() returns the empty
\* sequence and leaves localStorage as it was.
C4_NotFound ==
    [][\A c \in Calls :
          (LoadReturns(c) /\ Configured /\ calls'[c].seen = 404) =>
             /\ calls'[c].outcome = "returned"
             /\ calls'[c].retLogs = <<>>
             /\ localStorage' = localStorage]_vars

\* a load answered 404 has returned and the populated cache is still there
C4_Witness ==
    \E c \in Calls :
        /\ LoadDone(c) /\ calls[c].seen = 404
        /\ calls[c].retLogs = <<>>
        /\ Cache = Item(JSONstringify(CachedLogs))

\* C5 as stated: when the GET succeeds with decodable content, loadLogs()
\* returns the decoded collection and the cache holds it on return.
C5_AlwaysRefreshed ==
    [][\A c \in Calls :
          (/\ LoadReturns(c) /\ Configured /\ calls'[c].seen = 200
           /\ DecodeContent(calls[c].resp.content).ok) =>
             /\ calls'[c].outcome = "returned"
             /\ calls'[c].retLogs = JSONparse(atob(calls[c].resp.content).val).val
             /\ localStorage'.updateLogs =
                   Item(JSONstringify(calls'[c].retLogs))]_vars

\* C5 amended: when the GET succeeds with decodable content, loadLogs()
\* returns the decoded collection and issues the local write of it; on return
\* the cache holds that collection if the store accepted the write and is
\* left as it was if the store rejected it.
C5_RefreshedUnlessStoreFails ==
    [][\A c \in Calls :
          (/\ LoadReturns(c) /\ Configured /\ calls'[c].seen = 200
           /\ DecodeContent(calls[c].resp.content).ok) =>
             /\ calls'[c].outcome = "returned"
             /\ calls'[c].retLogs = JSONparse(atob(calls[c].resp.content).val).val
             /\ calls'[c].wrote
             /\ localStorage'.updateLogs =
                   IF calls'[c].wroteOK THEN Item(JSONstringify(calls'[c].retLogs))
                   ELSE localStorage.updateLogs]_vars

\* a load has returned a non-empty collection from the remote file and the
\* cache, which held something else at the start, holds it
C5_Witness ==
    \E c \in Calls :
        /\ LoadDone(c) /\ calls[c].fromRemote
        /\ calls[c].wroteOK
        /\ Len(calls[c].retLogs) = 2
        /\ Cache = Item(JSONstringify(calls[c].retLogs))

\* C6: an unconfigured loadLogs() issues no request, leaves the remote file
\* alone, and returns the parsed text of 'updateLogs', or the empty sequence
\* when the key is missing.
C6_LocalOnlyLoad ==
    [][\A c \in Calls :
          (LoadReturns(c) /\ ~Configured) =>
             /\ calls'[c].gets = 0 /\ calls'[c].puts = 0
             /\ remote' = remote
             /\ localStorage' = localStorage
             /\ ~Cache.present =>
                   calls'[c].outcome = "returned" /\ calls'[c].retLogs = <<>>
             /\ (Cache.present /\ JSONparse(Cache.text).ok) =>
                   /\ calls'[c].outcome = "returned"
                   /\ calls'[c].retLogs = JSONparse(Cache.text).val]_vars

\* an unconfigured load has returned the cached collection
C6_Witness ==
    \E c \in Calls :
        /\ LoadDone(c) /\ ~Configured
        /\ calls[c].outcome = "returned"
        /\ calls[c].retLogs = CachedLogs
        /\ Cache = Item(JSONstringify(CachedLogs))

\* C7: an unconfigured saveLogs(X) issues no request and leaves the remote
\* file alone; it touches only the key 'updateLogs' and returns true iff the
\* local write succeeded.
C7_LocalOnlySave ==
    [][\A c \in Calls :
          (SaveReturns(c) /\ ~Configured) =>
             /\ calls'[c].gets = 0 /\ calls'[c].puts = 0
             /\ remote' = remote
             /\ calls'[c].alerts = 0
             /\ localStorage'.github_config = localStorage.github_config
             /\ calls'[c].outcome = "returned"
             /\ calls'[c].retBool = calls'[c].wroteOK
             /\ localStorage'.updateLogs =
                   IF calls'[c].retBool THEN Item(JSONstringify(calls'[c].logs))
                   ELSE localStorage.updateLogs]_vars

\* an unconfigured save has returned false because the store rejected the
\* write, and the remote file is still there
C7_Witness ==
    \E c \in Calls :
        /\ SaveDone(c) /\ ~Configured
        /\ ~calls[c].retBool /\ ~calls[c].wroteOK
        /\ Cache # Item(JSONstringify(calls[c].logs))
        /\ remote.exists

\* C8 as stated: what loadLogs() decodes from the content that saveLogs(X)
\* sent is X.
C8_RoundTrip ==
    \A c, d \in Calls :
        (/\ LoadDone(c) /\ calls[c].fromRemote
         /\ SaveDone(d) /\ calls[d].accepted
         /\ calls[c].by = calls[d].id) =>
            calls[c].retLogs = calls[d].logs

\* C9: a configured saveLogs() sends one GET and then one PUT carrying the
\* revision that very GET returned; with no request failing and no other
\* writer in between, the PUT is accepted and the call returns true - so two
\* saves in sequence both return true.
C9_FreshRevision ==
    \A c \in Calls :
        (calls[c].op = "save" /\ Configured) =>
           /\ calls[c].pc \in {"putSent", "putReplied", "done"} =>
                 /\ calls[c].gets = 1 /\ calls[c].puts = 1
                 /\ calls[c].seen = 200 /\ calls[c].pc = "putSent" =>
                       calls[c].sha = calls[c].resp.sha
           /\ (calls[c].pc = "done" /\ ~calls[c].failed /\ ~calls[c].overlapped) =>
                 /\ calls[c].accepted
                 /\ calls[c].outcome = "returned"
                 /\ calls[c].retBool

\* two saves have returned true, the second having fetched the revision
\* the first one wrote
C9_Witness ==
    \E c, d \in Calls :
        /\ SaveDone(c) /\ SaveDone(d) /\ Configured
        /\ calls[c].retBool /\ calls[d].retBool
        /\ calls[c].id = 1 /\ calls[d].id = 2
        /\ calls[d].by = 1
        /\ remote.by = 2 /\ remote.sha = 3

\* saves c and d each had their GET answered with the same revision before
\* the server saw either PUT
Raced(c, d) ==
    /\ c # d
    /\ SaveDone(c) /\ SaveDone(d)
    /\ calls[c].rival = calls[d].id /\ calls[d].rival = calls[c].id
    /\ calls[c].sha = calls[d].sha

\* C10: of two configured saves that fetched the same revision before either
\* PUT, the remote accepts at most one; the other one's PUT is answered with
\* a conflict (unless the request itself failed), it returns false having
\* sent a single PUT, and the remote file holds the accepted collection.
C10_OneWinner ==
    \A c, d \in Calls :
        Raced(c, d) =>
           /\ ~(calls[c].accepted /\ calls[d].accepted)
           /\ calls[c].accepted =>
                 /\ calls[d].outcome = "returned" /\ ~calls[d].retBool
                 /\ calls[d].puts = 1
                 /\ calls[d].failed \/ calls[d].seen \in {409, 422}
                 /\ remote.content = EncodeContent(calls[c].logs)
                 /\ remote.by = calls[c].id

\* two racing saves of different collections on an existing file: one was
\* accepted and returned true, the other got 409 and returned false
C10_Witness ==
    \E c, d \in Calls :
        /\ Raced(c, d)
        /\ calls[c].sha = 1
        /\ calls[c].logs # calls[d].logs
        /\ calls[c].accepted /\ calls[c].retBool
        /\ calls[d].seen = 409 /\ ~calls[d].retBool

\* C16: the alert is raised exactly once by a configured saveLogs() whose
\* PUT the client saw fail (non-2xx answer or rejected fetch), and by nothing
\* else: not by loadLogs(), not by an unconfigured saveLogs(), not by a
\* saveLogs() whose PUT was answered 2xx, not by a rejected local write.
C16_AlertOnlyOnRemoteFailure ==
    \A c \in Calls :
        calls[c].alerts =
            IF /\ SaveDone(c) /\ Configured
               /\ calls[c].puts = 1 /\ calls[c].seen \notin 200..299
            THEN 1 ELSE 0

\* a save answered 2xx whose mirror write the store rejected raised no alert,
\* next to a load that fell back to the cache after a failed GET
C16_Witness ==
    \E c, d \in Calls :
        /\ SaveDone(c) /\ Configured
        /\ calls[c].seen \in 200..299 /\ calls[c].wrote /\ ~calls[c].wroteOK
        /\ calls[c].alerts = 0
        /\ LoadDone(d) /\ calls[d].failed /\ calls[d].alerts = 0

\* C17: the PUT of a configured saveLogs() carries a revision identifier iff
\* its GET was answered 2xx; after any other GET outcome the PUT is still
\* sent, without one.  Such a PUT reaching an existing file is rejected (422,
\* file untouched), and a save that saw its PUT rejected returns false.
C17_ShaIffGetOk ==
    /\ [](\A c \in Calls :
            (calls[c].op = "save" /\ Configured) =>
               /\ calls[c].pc \in {"putSent", "putReplied"} =>
                     /\ calls[c].puts = 1
                     /\ (calls[c].sha # 0) = (calls[c].seen \in 200..299)
               /\ calls[c].pc = "done" =>
                     /\ calls[c].puts = 1
                     /\ calls[c].seen \notin 200..299 => ~calls[c].retBool)
    /\ [][\A c \in Calls :
            (/\ calls[c].op = "save" /\ calls[c].pc = "putSent"
             /\ calls'[c].pc = "putReplied"
             /\ calls[c].sha = 0 /\ remote.exists) =>
               /\ ~calls'[c].accepted
               /\ calls'[c].resp.status \in {422, 500}
               /\ remote' = remote]_vars

\* a save whose GET was refused with 500 sent a PUT without identifier to an
\* existing file, got 422 and returned false
C17_Witness ==
    \E c \in Calls :
        /\ SaveDone(c) /\ Configured
        /\ calls[c].failed /\ calls[c].sha = 0
        /\ calls[c].seen = 422
        /\ ~calls[c].accepted /\ ~calls[c].retBool
        /\ remote.exists /\ remote.by = 0

\* C18: a configured saveLogs(X) that returned true had its one PUT of X
\* accepted by the remote, and a PUT answered 2xx makes it return true
\* whether or not the mirror write into the cache succeeded.
C18_TrueOnlyIfAccepted ==
    \A c \in Calls :
        (SaveDone(c) /\ Configured) =>
           /\ calls[c].retBool =>
                 /\ calls[c].accepted
                 /\ calls[c].puts = 1
                 /\ calls[c].body = EncodeContent(calls[c].logs)
           /\ calls[c].retBool = (calls[c].seen \in 200..299)

\* a save returned true although the store rejected the mirror write: the
\* remote holds X and the cache does not
C18_Witness ==
    \E c \in Calls :
        /\ SaveDone(c) /\ Configured
        /\ calls[c].retBool /\ calls[c].accepted
        /\ calls[c].wrote /\ ~calls[c].wroteOK
        /\ remote.content = EncodeContent(calls[c].logs)
        /\ Cache # Item(JSONstringify(calls[c].logs))

\* every character of every record is ASCII
Ascii(logs) == \A i \in 1..Len(logs) : \A j \in 1..Len(logs[i]) : logs[i][j] < 128

\* what loadLogsFromLocal() reads from a cache item that parses
CacheValue(item) ==
    IF ~item.present \/ item.text = <<>> THEN <<>> ELSE JSONparse(item.text).val

\* every finished call in the slots had its requests answered 2xx and its
\* cache write accepted, and every saved collection is ASCII
AllSucceeded ==
    /\ Configured
    /\ \A c \in Calls : calls[c].pc \in {"idle", "done"}
    /\ \E c \in Calls : calls[c].pc = "done"
    /\ \A c \in Calls :
          calls[c].pc = "done" =>
             /\ ~calls[c].failed
             /\ calls[c].seen \in 200..299
             /\ calls[c].wroteOK
             /\ calls[c].op = "save" => Ascii(calls[c].logs)
             /\ calls[c].op = "load" => calls[c].fromRemote

\* C19 as stated, on its most favourable cases (ASCII collections saved,
\* every request answered 2xx, every cache write accepted): once all calls
\* have completed, the cache holds the collection loadLogs() reads from the
\* remote file.
C19_CacheEqualsRemote ==
    AllSucceeded =>
       /\ remote.exists
       /\ DecodeContent(remote.content).ok
       /\ Cache.present
       /\ CacheValue(Cache) = DecodeContent(remote.content).val

\* C19 amended: when a call returns after its request was answered 2xx and
\* its cache write was accepted, the cache agrees with the remote file
\* provided the file was not rewritten since the remote served that call:
\* after loadLogs() the cache holds the collection decoded from the file,
\* after saveLogs(X) it holds X and the file holds the encoding of X.
C19_CacheFollowsLastTransfer ==
    [][\A c \in Calls :
          /\ (/\ LoadReturns(c) /\ Configured
              /\ calls'[c].fromRemote /\ calls'[c].wroteOK
              /\ remote.exists /\ remote.content = calls[c].resp.content) =>
                /\ localStorage'.updateLogs = Item(JSONstringify(calls'[c].retLogs))
                /\ calls'[c].retLogs = DecodeContent(remote'.content).val
          /\ (/\ SaveReturns(c) /\ Configured
              /\ calls'[c].seen \in 200..299 /\ calls'[c].wroteOK
              /\ remote.by = calls[c].id) =>
                /\ localStorage'.updateLogs = Item(JSONstringify(calls'[c].logs))
                /\ remote'.content = EncodeContent(calls'[c].logs)]_vars

\* a load and a save have both completed with success, the save last, and
\* cache and remote file both hold the saved collection
C19_Witness ==
    \E c, d \in Calls :
        /\ AllSucceeded
        /\ LoadDone(c) /\ SaveDone(d)
        /\ calls[c].id = 1 /\ calls[d].id = 2
        /\ remote.by = 2
        /\ Cache = Item(JSONstringify(calls[d].logs))
        /\ remote.content = EncodeContent(calls[d].logs)
        /\ calls[c].retLogs # calls[d].logs

(* ---------------- configuration and the sync wrappers ---------------- *)

StoredConfig == localStorage.github_config

\* C11: isConfigured() is true exactly when the stored configuration parses
\* and its username, repo and token are all non-empty; it is false for a
\* missing or unparsable configuration and for every one lacking a field.
C11_ConfiguredIffAllThree ==
    \A c \in Calls :
        (calls[c].op = "isConfigured" /\ calls[c].pc = "done") =>
            /\ calls[c].outcome = "returned"
            /\ calls[c].retBool =
                  (/\ StoredConfig.present /\ StoredConfig.valid
                   /\ StoredConfig.obj.username # ""
                   /\ StoredConfig.obj.repo # ""
                   /\ StoredConfig.obj.token # "")

\* isConfigured() was false for a configuration that lacks only the token
C11_Witness ==
    \E c \in Calls :
        /\ calls[c].op = "isConfigured" /\ calls[c].pc = "done"
        /\ ~calls[c].retBool
        /\ StoredConfig.valid
        /\ StoredConfig.obj.username = "u" /\ StoredConfig.obj.repo = "r"
        /\ StoredConfig.obj.token = ""

\* a call of syncFromGitHub() or syncToGitHub() starts in this step
SyncStarts(c) == calls'[c].id # calls[c].id /\ calls'[c].via # "direct"

\* C12: an unconfigured syncFromGitHub() or syncToGitHub() raises, sends no
\* request, and leaves the cache and the remote file as they were.
C12_UnconfiguredSyncRaises ==
    [][\A c \in Calls :
          (SyncStarts(c) /\ ~Configured) =>
             /\ calls'[c].pc = "done"
             /\ calls'[c].outcome = "raised"
             /\ calls'[c].gets = 0 /\ calls'[c].puts = 0
             /\ ~calls'[c].wrote
             /\ localStorage' = localStorage
             /\ remote' = remote]_vars

\* both wrappers raised without configuration, over a cache and a remote file
\* that hold collections
C12_Witness ==
    \E c, d \in Calls :
        /\ ~Configured
        /\ calls[c].via = "syncFrom" /\ calls[c].outcome = "raised"
        /\ calls[d].via = "syncTo" /\ calls[d].outcome = "raised"
        /\ Cache = Item(JSONstringify(CachedLogs))
        /\ remote = RemoteFile(EncodeContent(StoredLogs))

\* the cache holds a collection: the key is missing (empty) or parses
CacheHoldsLogs == loadLogsFromLocal(localStorage).ok

\* C13: a configured syncToGitHub() over a cache that holds a collection
\* submits that collection: the save starts with it, the PUT body encodes it,
\* an accepted PUT makes the remote file that body, and the call returns
\* saveLogs' result with the cache holding the same collection as before.
C13_PushesTheCache ==
    /\ [][\A c \in Calls :
             /\ (SyncStarts(c) /\ calls'[c].via = "syncTo" /\ Configured
                    /\ CacheHoldsLogs) =>
                   /\ calls'[c].op = "save" /\ calls'[c].pc = "getSent"
                   /\ calls'[c].logs = CacheValue(Cache)
                   /\ localStorage' = localStorage
             /\ (calls[c].via = "syncTo" /\ calls[c].pc = "putSent"
                    /\ remote' # remote) =>
                   /\ remote'.content = EncodeContent(CacheValue(Cache))
                   /\ calls'[c].accepted
             /\ (SaveReturns(c) /\ calls'[c].via = "syncTo") =>
                   /\ calls'[c].outcome = "returned"
                   /\ calls'[c].retBool
                         = (calls'[c].puts = 1 /\ calls'[c].seen \in 200..299)
                   /\ CacheValue(Cache') = calls'[c].logs
                   /\ CacheValue(Cache') = CacheValue(Cache)
                   /\ calls'[c].accepted =>
                         remote'.content = EncodeContent(CacheValue(Cache'))]_vars
    /\ [](\A c \in Calls :
             (calls[c].via = "syncTo" /\ calls[c].puts = 1) =>
                 calls[c].body = EncodeContent(calls[c].logs))

\* syncToGitHub() returned true after an accepted PUT of a non-empty cache
C13_Witness ==
    \E c \in Calls :
        /\ calls[c].via = "syncTo" /\ SaveDone(c)
        /\ calls[c].accepted /\ calls[c].retBool
        /\ calls[c].logs = CachedLogs
        /\ remote.content = EncodeContent(CachedLogs)
        /\ remote.by = calls[c].id
        /\ CacheValue(Cache) = CachedLogs

\* this.config as the constructor leaves it for the stored key
ConfigAsConstructed ==
    IF StoredConfig.present /\ StoredConfig.valid
    THEN [isNull |-> FALSE, fields |-> StoredConfig.obj]
    ELSE NullConfig

\* C14: the configuration is what the constructor read, an unparsable key
\* giving the unconfigured state without an exception, and no operation
\* changes the configuration, the configured status or the 'github_config'
\* key.
C14_ConfigFixed ==
    /\ [](/\ config = ConfigAsConstructed
          /\ (StoredConfig.present /\ ~StoredConfig.valid) =>
                 (config = NullConfig /\ ~Configured)
          /\ \A c \in Calls :
                calls[c].op = "loadConfig" => calls[c].outcome = "returned")
    /\ [][/\ config' = config
          /\ isConfigured(config') = isConfigured(config)
          /\ localStorage'.github_config = localStorage.github_config]_vars

\* over an unparsable key, loadConfig() was called again and returned false,
\* and a saveLogs() ran to its end, the adapter still unconfigured
C14_Witness ==
    \E c, d \in Calls :
        /\ StoredConfig.present /\ ~StoredConfig.valid
        /\ calls[c].op = "loadConfig" /\ calls[c].pc = "done"
        /\ ~calls[c].retBool
        /\ calls[d].op = "save" /\ calls[d].pc = "done"
        /\ config = NullConfig

\* the tokens two configurations may differ in
Tokens == {"t", "t2"}

\* C15: getConfigInfo() returns null exactly when unconfigured; otherwise the
\* username, the repo, the branch or 'main', and the URL built from username
\* and repo; a configuration with any other non-empty token gives the same
\* result.
C15_InfoWithoutToken ==
    \A c \in Calls :
        (calls[c].op = "getConfigInfo" /\ calls[c].pc = "done") =>
            /\ calls[c].retNull = ~Configured
            /\ Configured =>
                  /\ calls[c].retInfo =
                        [username |-> config.fields.username,
                         repo     |-> config.fields.repo,
                         branch   |-> IF config.fields.branch = "" THEN "main"
                                      ELSE config.fields.branch,
                         repoUrl  |-> <<"https://github.com/",
                                        config.fields.username, "/",
                                        config.fields.repo>>]
                  /\ \A t \in Tokens :
                        getConfigInfo([config EXCEPT !.fields.token = t])
                           = [isNull |-> FALSE, info |-> calls[c].retInfo]

\* getConfigInfo() returned the fields of a configuration without a branch
C15_Witness ==
    \E c \in Calls :
        /\ calls[c].op = "getConfigInfo" /\ calls[c].pc = "done"
        /\ Configured /\ ~calls[c].retNull
        /\ config.fields.branch = ""
        /\ calls[c].retInfo.branch = "main"

\* C20: the remote file changes only in the step that accepts the PUT of a
\* configured saveLogs(), called directly or by syncToGitHub(); loadLogs(),
\* syncFromGitHub(), getConfigInfo(), isConfigured() and loadConfig() send no
\* PUT.
C20_OnlySaveWrites ==
    /\ [][remote' # remote =>
             \E c \in Calls :
                /\ calls[c].op = "save" /\ calls[c].via \in {"direct", "syncTo"}
                /\ calls[c].pc = "putSent" /\ Configured
                /\ calls'[c].accepted
                /\ remote'.by = calls[c].id
                /\ remote'.content = calls[c].body]_vars
    /\ [](\A c \in Calls :
             (\/ calls[c].op \in {"load", "isConfigured", "getConfigInfo",
                                  "loadConfig", "syncFrom", "syncTo"}
              \/ calls[c].via = "syncFrom"
              \/ ~Configured) =>
                 /\ calls[c].puts = 0
                 /\ calls[c].pc # "idle" => remote.by # calls[c].id)

\* a syncFromGitHub() read the remote file and a saveLogs() rewrote it
C20_Witness ==
    \E c, d \in Calls :
        /\ calls[c].via = "syncFrom" /\ calls[c].pc = "done"
        /\ calls[c].gets = 1 /\ calls[c].fromRemote
        /\ SaveDone(d) /\ calls[d].accepted
        /\ remote.by = calls[d].id
====
